---- MODULE Spec2Model ----
(***************************************************************************)
(* A model of the zkSTARK-style authentication library: the prime-field    *)
(* arithmetic (src/src/field.ts), the Merkle commitment (src/merkle.ts,    *)
(* kept as src/unnamed/part_001), the prover (src/prover.ts, kept as       *)
(* src/unnamed/part_002) and the verifier (src/src/verifier.ts).           *)
(*                                                                         *)
(* The library is a set of pure functions.  The state machine below is the *)
(* protocol run around them: a prover call on drawn inputs, an adversary   *)
(* that may alter what crosses the wire, and a verifier call (Spec).  A    *)
(* second specification (LibSpec) calls the field, encoding, Merkle and    *)
(* trace functions directly on drawn arguments.  A third (LoopSpec) runs   *)
(* deriveQueryIndices one loop iteration at a time, under weak fairness.   *)
(*                                                                         *)
(* Two quantities are scaled, because TLC's integers are 32 bits wide:     *)
(*  - STARK_PRIME is 11 instead of 2^251 + 17*2^192 + 1.  Both primes are  *)
(*    2 mod 3 (cubing is a bijection) and in both fields x^3 + 7 has no    *)
(*    fixed point.                                                         *)
(*  - sha256 is a 15-bit polynomial checksum laid out in a 32-byte digest. *)
(***************************************************************************)
EXTENDS Integers, Sequences, FiniteSets, TLC

----------------------------------------------------------------------------
(* Bounds of the model *)

\* the largest params.steps the inputs are drawn from
MaxSteps == 4

\* the integers handed to the FieldElement constructor are -MaxRaw..MaxRaw
MaxRaw == 12

\* the exponents handed to pow are -MaxExponent..MaxExponent
MaxExponent == 3

\* the longest leaf sequence a Merkle tree is built from directly
MaxLeaves == 5

\* the largest params.steps of a direct buildAuthTrace call
MaxTraceSteps == 16

\* params.steps and params.queries of a deriveQueryIndices call that is run
\* step by step are 0..MaxLoopSteps
MaxLoopSteps == 6

\* the draws of one such call that are followed
MaxDraws == 20

\* the seeds of such calls are the digests of the one-byte strings
\* <<0>> .. <<MaxSeedByte>>
MaxSeedByte == 3

\* the last byte of the byte strings handed to fieldElementFromBytes is
\* 0..MaxByte
MaxByte == 23

----------------------------------------------------------------------------
(* src/src/field.ts *)

STARK_PRIME == 11

\* JavaScript's % on bigint: the remainder takes the sign of the dividend
JsRem(n, m) == IF n >= 0 THEN n % m ELSE -((-n) % m)

\* JavaScript's / on bigint: the quotient is truncated toward zero
JsDiv(n, m) ==
  IF (n >= 0) = (m >= 0)
    THEN (IF n >= 0 THEN n ELSE -n) \div (IF m >= 0 THEN m ELSE -m)
    ELSE -((IF n >= 0 THEN n ELSE -n) \div (IF m >= 0 THEN m ELSE -m))

\* MUTANT of mod: the remainder is returned as % leaves it, a negative one
\* included
modTruncated(n, modulus) == JsRem(n, modulus)

\* FieldElement.mod
mod(n, modulus) ==
  LET result == JsRem(n, modulus)
  IN IF result >= 0 THEN result ELSE result + modulus

\* new FieldElement(value, modulus)
FieldElement(value, modulus) ==
  [value |-> mod(value, modulus), modulus |-> modulus]

createField(value) == FieldElement(value, STARK_PRIME)

\* ensureSameField throws 'Field mismatch' exactly when this is FALSE
ensureSameField(a, b) == a.modulus = b.modulus

add(a, b) == FieldElement(a.value + b.value, a.modulus)

sub(a, b) == FieldElement(a.value - b.value, a.modulus)

mul(a, b) == FieldElement(a.value * b.value, a.modulus)

equals(a, b) == a.value = b.value /\ a.modulus = b.modulus

\* the while loop of pow: binary exponentiation
RECURSIVE powLoop(_, _, _)
powLoop(result, base, exp) ==
  IF exp > 0
    THEN powLoop(IF exp % 2 = 1 THEN mul(result, base) ELSE result,
                 mul(base, base), exp \div 2)
    ELSE result

\* pow, for the exponents the protocol uses (exponent >= 0)
pow(x, exponent) == powLoop(FieldElement(1, x.modulus), x, exponent)

\* neg never fails
neg(a) == FieldElement(-a.value, a.modulus)

isZero(a) == a.value = 0

\* JavaScript's undefined: what a call that threw leaves its caller with,
\* and an element of proof.openings that is not an object
Undefined == [undefined |-> TRUE]

\* a call that returned `v`, and a call that threw new Error(msg)
Return(v) == [error |-> "", value |-> v]

Throw(msg, v) == [error |-> msg, value |-> v]

\* the methods as calls: ensureSameField first, then the arithmetic
addCall(a, b) ==
  IF ~ensureSameField(a, b) THEN Throw("Field mismatch", Undefined)
  ELSE Return(add(a, b))

subCall(a, b) ==
  IF ~ensureSameField(a, b) THEN Throw("Field mismatch", Undefined)
  ELSE Return(sub(a, b))

mulCall(a, b) ==
  IF ~ensureSameField(a, b) THEN Throw("Field mismatch", Undefined)
  ELSE Return(mul(a, b))

\* equals never calls ensureSameField: it compares the moduli itself
equalsCall(a, b) == Return(equals(a, b))

\* the while loop of extendedGcd
RECURSIVE gcdLoop(_, _, _, _)
gcdLoop(oldR, r, oldS, s) ==
  IF r # 0
    THEN LET quotient == JsDiv(oldR, r)
         IN gcdLoop(r, oldR - quotient * r, s, oldS - quotient * s)
    ELSE <<oldR, oldS>>

\* extendedGcd(a, b) returns [gcd, x] with a*x = gcd (mod b)
extendedGcd(a, b) == IF b = 0 THEN <<a, 1>> ELSE gcdLoop(a, b, 1, 0)

\* MUTANT of inverse: the test for zero is missing
inverseNoZeroCheck(a) ==
  LET g == extendedGcd(a.value, a.modulus)
  IN IF g[1] # 1 THEN Throw("Element is not invertible", Undefined)
     ELSE Return(FieldElement(g[2], a.modulus))

inverse(a) ==
  IF a.value = 0 THEN Throw("Cannot invert zero", Undefined)
  ELSE LET g == extendedGcd(a.value, a.modulus)
       IN IF g[1] # 1 THEN Throw("Element is not invertible", Undefined)
          ELSE Return(FieldElement(g[2], a.modulus))

\* MUTANT of div: the divisor is inverted before the fields are compared
divInverseFirst(a, b) ==
  LET inv == inverse(b)
  IN IF inv.error # "" THEN Throw(inv.error, Undefined)
     ELSE mulCall(a, inv.value)

\* div: ensureSameField, then this.mul(other.inverse())
div(a, b) ==
  IF ~ensureSameField(a, b) THEN Throw("Field mismatch", Undefined)
  ELSE LET inv == inverse(b)
       IN IF inv.error # "" THEN Throw(inv.error, Undefined)
          ELSE mulCall(a, inv.value)

\* pow as a call, negative exponents included: this.inverse().pow(-exponent)
powCall(x, exponent) ==
  IF exponent < 0
    THEN LET inv == inverse(x)
         IN IF inv.error # "" THEN Throw(inv.error, Undefined)
            ELSE Return(pow(inv.value, -exponent))
    ELSE Return(pow(x, exponent))

\* MUTANT of authHash: the base is squared instead of cubed
authHashSquared(x) ==
  LET c7 == FieldElement(7, x.modulus)
  IN add(pow(x, 2), c7)

\* H(x) = x^3 + 7 (mod p), the Transition function
authHash(x) ==
  LET c7 == FieldElement(7, x.modulus)
  IN add(pow(x, 3), c7)

\* the width of the wire encoding of a field element
FieldBytes == 32

\* a run of n zero bytes
RECURSIVE Zeros(_)
Zeros(n) == IF n = 0 THEN <<>> ELSE <<0>> \o Zeros(n - 1)

\* MUTANT of fieldElementToBytes: the least significant byte comes first
fieldElementToBytesLittleEndian(fe) ==
  << fe.value % 256, (fe.value \div 256) % 256, (fe.value \div 65536) % 256 >>
    \o Zeros(FieldBytes - 3)

\* fe.value.toString(16).padStart(64, '0'), read back two hex digits at a
\* time: 32 bytes, big-endian.  Values of the model are below 2^24, so all
\* but the last three bytes are the zeros of padStart.
fieldElementToBytes(fe) ==
  Zeros(FieldBytes - 3)
    \o << (fe.value \div 65536) % 256, (fe.value \div 256) % 256, fe.value % 256 >>

\* for (const b of bytes) v = (v << 8n) | BigInt(b), from byte i on
RECURSIVE decodeLoop(_, _, _)
decodeLoop(bytes, i, v) ==
  IF i > Len(bytes) THEN v
  ELSE decodeLoop(bytes, i + 1, v * 256 + bytes[i])

fieldElementFromBytes(bytes) ==
  IF Len(bytes) # FieldBytes
    THEN Throw("Expected 32 bytes for field element", Undefined)
    ELSE Return(FieldElement(decodeLoop(bytes, 1, 0), STARK_PRIME))

----------------------------------------------------------------------------
(* sha256 of @noble/hashes, as the library uses it: a deterministic        *)
(* function from byte strings to 32-byte digests.  The checksum reads its  *)
(* input as a number base 256 modulo a prime, so changing one byte of the  *)
(* input, or the checksum inside one digest of the input, changes the      *)
(* digest.                                                                 *)

DigestBytes == 32

HashModulus == 32719

HashMultiplier == 256

\* HashMultiplier^n mod HashModulus, by squaring
RECURSIVE MultiplierPower(_)
MultiplierPower(n) ==
  IF n = 0 THEN 1
  ELSE LET h == MultiplierPower(n \div 2)
       IN (((h * h) % HashModulus) * (IF n % 2 = 1 THEN HashMultiplier ELSE 1))
            % HashModulus

\* the polynomial checksum of data[lo..hi]: the sum of
\* (data[i] + 1) * HashMultiplier^(hi - i), mod HashModulus
RECURSIVE Absorb(_, _, _)
Absorb(data, lo, hi) ==
  IF lo > hi THEN 0
  ELSE IF lo = hi THEN (data[lo] + 1) % HashModulus
  ELSE LET mid == (lo + hi) \div 2
       IN (Absorb(data, lo, mid) * MultiplierPower(hi - mid)
             + Absorb(data, mid + 1, hi)) % HashModulus

\* the digest: the checksum in bytes 7 and 8 (so that it is the value of
\* the first 8 bytes), zeros elsewhere
sha256(data) ==
  LET a == (MultiplierPower(Len(data)) + Absorb(data, 1, Len(data))) % HashModulus
  IN Zeros(6) \o << a \div 256, a % 256 >> \o Zeros(DigestBytes - 8)

----------------------------------------------------------------------------
(* src/unnamed/part_001 (merkle.ts) *)

\* MUTANT of arraysEqualMerkle: only the lengths are compared
arraysEqualMerkleLengthOnly(a, b) == Len(a) = Len(b)

\* arraysEqual of merkle.ts
arraysEqualMerkle(a, b) ==
  /\ Len(a) = Len(b)
  /\ \A i \in 1..Len(a) : a[i] = b[i]

\* MUTANT of nextLayerFrom: an unpaired trailing node is hashed with itself
\* instead of promoted
RECURSIVE nextLayerFromDuplicated(_, _)
nextLayerFromDuplicated(currentLayer, i) ==
  IF i >= Len(currentLayer) THEN <<>>
  ELSE IF i + 1 < Len(currentLayer)
    THEN <<sha256(currentLayer[i + 1] \o currentLayer[i + 2])>>
           \o nextLayerFromDuplicated(currentLayer, i + 2)
    ELSE <<sha256(currentLayer[i + 1] \o currentLayer[i + 1])>>
           \o nextLayerFromDuplicated(currentLayer, i + 2)

\* one pass of the for loop of buildTree: hash adjacent pairs, promote an
\* unpaired trailing node unchanged.  i is 0-based as in the source.
RECURSIVE nextLayerFrom(_, _)
nextLayerFrom(currentLayer, i) ==
  IF i >= Len(currentLayer) THEN <<>>
  ELSE IF i + 1 < Len(currentLayer)
    THEN <<sha256(currentLayer[i + 1] \o currentLayer[i + 2])>>
           \o nextLayerFrom(currentLayer, i + 2)
    ELSE <<currentLayer[i + 1]>> \o nextLayerFrom(currentLayer, i + 2)

\* the while loop of buildTree: the layers from `layers` upwards
RECURSIVE buildLayers(_)
buildLayers(layers) ==
  LET currentLayer == layers[Len(layers)]
  IN IF Len(currentLayer) > 1
       THEN buildLayers(Append(layers, nextLayerFrom(currentLayer, 0)))
       ELSE layers

\* new MerkleTree(leaves), for a non-empty leaf sequence
MerkleTree(leaves) ==
  LET layers == buildLayers(<<leaves>>)
  IN [leaves |-> leaves, layers |-> layers,
      root |-> layers[Len(layers)][1]]

\* MUTANT of getProofFrom: the sibling's side is recorded the wrong way round
RECURSIVE getProofFromSwapped(_, _, _)
getProofFromSwapped(layers, i, currentIndex) ==
  IF i >= Len(layers) - 1 THEN <<>>
  ELSE
    LET layer == layers[i + 1]
        isRightNode == currentIndex % 2 = 1
        siblingIndex == IF isRightNode THEN currentIndex - 1 ELSE currentIndex + 1
        here == IF siblingIndex < Len(layer)
                  THEN <<[hash |-> layer[siblingIndex + 1],
                          position |-> IF isRightNode THEN "right" ELSE "left"]>>
                  ELSE <<>>
    IN here \o getProofFromSwapped(layers, i + 1, currentIndex \div 2)

\* the for loop of getProof; i and currentIndex are 0-based as in the source
RECURSIVE getProofFrom(_, _, _)
getProofFrom(layers, i, currentIndex) ==
  IF i >= Len(layers) - 1 THEN <<>>
  ELSE
    LET layer == layers[i + 1]
        isRightNode == currentIndex % 2 = 1
        siblingIndex == IF isRightNode THEN currentIndex - 1 ELSE currentIndex + 1
        here == IF siblingIndex < Len(layer)
                  THEN <<[hash |-> layer[siblingIndex + 1],
                          position |-> IF isRightNode THEN "left" ELSE "right"]>>
                  ELSE <<>>
    IN here \o getProofFrom(layers, i + 1, currentIndex \div 2)

\* MerkleTree.getProof(index), for 0 <= index < leaves.length
getProof(tree, index) ==
  [leaf |-> tree.leaves[index + 1],
   proof |-> getProofFrom(tree.layers, 0, index),
   root |-> tree.root]

\* new MerkleTree(leaves) as a call: an empty leaf sequence is refused
MerkleTreeCall(leaves) ==
  IF Len(leaves) = 0
    THEN Throw("Merkle tree must have at least one leaf", Undefined)
    ELSE Return(MerkleTree(leaves))

\* new MerkleTree(leaves).getProof(index) as a call: an index outside the
\* leaves is refused
getProofCall(leaves, index) ==
  LET built == MerkleTreeCall(leaves)
  IN IF built.error # "" THEN built
     ELSE IF index < 0 \/ index >= Len(leaves)
       THEN Throw("Invalid leaf index", Undefined)
       ELSE Return(getProof(built.value, index))

\* MerkleProof.verify: replay the hash chain from the leaf
RECURSIVE replay(_, _, _)
replay(proof, k, currentHash) ==
  IF k > Len(proof) THEN currentHash
  ELSE replay(proof, k + 1,
              IF proof[k].position = "left"
                THEN sha256(proof[k].hash \o currentHash)
                ELSE sha256(currentHash \o proof[k].hash))

merkleVerify(mp) == arraysEqualMerkle(replay(mp.proof, 1, mp.leaf), mp.root)

----------------------------------------------------------------------------
(* src/unnamed/part_002 (prover.ts) *)

\* MUTANT of traceFrom: the loop stops one element early
RECURSIVE traceFromShort(_, _, _)
traceFromShort(trace, i, steps) ==
  IF i < steps - 1
    THEN traceFromShort(Append(trace, authHash(trace[i])), i + 1, steps)
    ELSE trace

\* buildAuthTrace, for steps >= 2: trace[1..steps] is t[0..steps-1]
RECURSIVE traceFrom(_, _, _)
traceFrom(trace, i, steps) ==
  IF i < steps
    THEN traceFrom(Append(trace, authHash(trace[i])), i + 1, steps)
    ELSE trace

\* MUTANT of buildAuthTrace: the trace starts at the secret itself
buildAuthTraceFromSecret(witness, params) ==
  IF params.steps < 2
    THEN Throw("steps must be >= 2", <<>>)
    ELSE Return(traceFrom(<<witness.secret>>, 1, params.steps))

buildAuthTrace(witness, params) ==
  IF params.steps < 2
    THEN Throw("steps must be >= 2", <<>>)
    ELSE Return(traceFrom(<<authHash(witness.secret)>>, 1, params.steps))

computeChallengeSeed(root, statement) ==
  LET finalBytes == fieldElementToBytes(statement.finalHash)
      data == root \o finalBytes
  IN sha256(data)

\* the 4 big-endian bytes of the draw counter
counterBytes(counter) ==
  << (counter \div 16777216) % 256, (counter \div 65536) % 256,
     (counter \div 256) % 256, counter % 256 >>

\* acc = (acc << 8n) | BigInt(h[i]) for i = 0..7: the first 8 bytes of the
\* digest as a big-endian integer
RECURSIVE first8(_, _, _)
first8(h, i, acc) ==
  IF i < 8 THEN first8(h, i + 1, acc * 256 + h[i + 1]) ELSE acc

includes(indices, idx) == \E k \in 1..Len(indices) : indices[k] = idx

\* MUTANT of drawIndex: the counter bytes are not appended to the seed, so
\* that every draw hashes the same data
drawIndexNoCounter(seed, steps, ctrValue) ==
  LET data == seed
      h == sha256(data)
      acc == first8(h, 0, 0)
  IN acc % (steps - 1)

\* one draw of the while loop of deriveQueryIndices: the index made from
\* the seed and the counter
drawIndex(seed, steps, ctrValue) ==
  LET ctr == counterBytes(ctrValue)
      data == seed \o ctr
      h == sha256(data)
      acc == first8(h, 0, 0)
  IN acc % (steps - 1)

\* if (!indices.includes(idx)) indices.push(idx)
pushIfNew(indexList, idx) ==
  IF ~includes(indexList, idx) THEN Append(indexList, idx) ELSE indexList

\* MUTANT of deriveLoop: a drawn index is pushed without the includes test
RECURSIVE deriveLoopNoDedup(_, _, _, _, _)
deriveLoopNoDedup(seed, steps, queries, indices, counter) ==
  IF Len(indices) < queries
    THEN
      LET ctr == counterBytes(counter)
          data == seed \o ctr
          h == sha256(data)
          acc == first8(h, 0, 0)
          idx == acc % (steps - 1)
      IN deriveLoopNoDedup(seed, steps, queries, Append(indices, idx), counter + 1)
    ELSE indices

\* the while loop of deriveQueryIndices
RECURSIVE deriveLoop(_, _, _, _, _)
deriveLoop(seed, steps, queries, indices, counter) ==
  IF Len(indices) < queries
    THEN
      LET ctr == counterBytes(counter)
          data == seed \o ctr
          h == sha256(data)
          acc == first8(h, 0, 0)
          idx == acc % (steps - 1)
      IN deriveLoop(seed, steps, queries,
                    IF ~includes(indices, idx) THEN Append(indices, idx)
                                               ELSE indices,
                    counter + 1)
    ELSE indices

\* MUTANT of deriveQueryIndices: the test queries < 1 is missing
deriveQueryIndicesNoLowerBound(seed, params) ==
  LET steps == params.steps
      queries == params.queries
      forcedIndex == steps - 2
  IN IF steps < 2 THEN Throw("steps must be >= 2", <<>>)
     ELSE IF queries > steps - 1 THEN Throw("queries must be <= steps - 1", <<>>)
     ELSE Return(deriveLoop(seed, steps, queries, <<forcedIndex>>, 0))

deriveQueryIndices(seed, params) ==
  LET steps == params.steps
      queries == params.queries
      forcedIndex == steps - 2
  IN IF queries < 1 THEN Throw("queries must be >= 1", <<>>)
     ELSE IF steps < 2 THEN Throw("steps must be >= 2", <<>>)
     ELSE IF queries > steps - 1 THEN Throw("queries must be <= steps - 1", <<>>)
     ELSE Return(deriveLoop(seed, steps, queries, <<forcedIndex>>, 0))

\* what a failed generateAuthProof leaves the caller with: no proof
NoProof == [root |-> <<>>, indices |-> <<>>, openings |-> <<>>]

\* indices.map((index) => {...}): one opening per challenged index
openingsOf(indices, trace, tree) ==
  [k \in 1..Len(indices) |->
     LET index == indices[k]
     IN [index |-> index,
         current |-> trace[index + 1],
         next |-> trace[index + 2],
         proofCurrent |-> getProof(tree, index),
         proofNext |-> getProof(tree, index + 1)]]

\* MUTANT of generateAuthProof: the comparison of the recomputed final
\* value with statement.finalHash is missing
generateAuthProofUnchecked(statement, witness, params) ==
  LET steps == params.steps
      queries == params.queries
  IN IF queries < 1 THEN Throw("queries must be >= 1", NoProof)
     ELSE IF queries > steps - 1
       THEN Throw("queries must be <= steps - 1", NoProof)
     ELSE
       LET built == buildAuthTrace(witness, params)
       IN IF built.error # "" THEN Throw(built.error, NoProof)
          ELSE
            LET trace == built.value
                leaves == [k \in 1..Len(trace) |->
                             fieldElementToBytes(trace[k])]
                tree == MerkleTree(leaves)
                root == tree.root
                seed == computeChallengeSeed(root, statement)
                derived == deriveQueryIndices(seed, params)
            IN IF derived.error # "" THEN Throw(derived.error, NoProof)
               ELSE Return([root |-> root,
                            indices |-> derived.value,
                            openings |-> openingsOf(derived.value, trace, tree)])

generateAuthProof(statement, witness, params) ==
  LET steps == params.steps
      queries == params.queries
  IN IF queries < 1 THEN Throw("queries must be >= 1", NoProof)
     ELSE IF queries > steps - 1
       THEN Throw("queries must be <= steps - 1", NoProof)
     ELSE
       LET built == buildAuthTrace(witness, params)
       IN IF built.error # "" THEN Throw(built.error, NoProof)
          ELSE
            LET trace == built.value
                finalValue == trace[steps]
            IN IF ~equals(finalValue, statement.finalHash)
                 THEN Throw("Witness does not match statement.finalHash", NoProof)
                 ELSE
                   LET leaves == [k \in 1..Len(trace) |->
                                    fieldElementToBytes(trace[k])]
                       tree == MerkleTree(leaves)
                       root == tree.root
                       seed == computeChallengeSeed(root, statement)
                       derived == deriveQueryIndices(seed, params)
                   IN IF derived.error # "" THEN Throw(derived.error, NoProof)
                      ELSE Return([root |-> root,
                                   indices |-> derived.value,
                                   openings |-> openingsOf(derived.value, trace, tree)])

----------------------------------------------------------------------------
(* src/src/verifier.ts *)

\* MUTANT of arraysEqual (verifier.ts): only the lengths are compared
arraysEqualLengthOnly(a, b) == Len(a) = Len(b)

\* MUTANT of arrayEqualNumbers: the same entries in any order
arrayEqualNumbersAnyOrder(a, b) ==
  /\ Len(a) = Len(b)
  /\ {a[i] : i \in 1..Len(a)} = {b[i] : i \in 1..Len(b)}

\* arraysEqual of verifier.ts
arraysEqual(a, b) ==
  /\ Len(a) = Len(b)
  /\ \A i \in 1..Len(a) : a[i] = b[i]

arrayEqualNumbers(a, b) ==
  /\ Len(a) = Len(b)
  /\ \A i \in 1..Len(a) : a[i] = b[i]

\* MUTANT of verifyLoop: the last transition is not compared with statement.finalHash
RECURSIVE verifyLoopNoFinalHash(_, _, _, _, _)
verifyLoopNoFinalHash(proof, statement, steps, i, finalEdgeChecked) ==
  IF i >= Len(proof.indices)
    THEN (IF ~finalEdgeChecked THEN "false" ELSE "true")
    ELSE
      LET index == proof.indices[i + 1]
          opening == proof.openings[i + 1]
      IN IF opening = Undefined THEN "throw"
         ELSE IF opening.index # index THEN "false"
         ELSE IF index < 0 \/ index >= steps - 1 THEN "false"
         ELSE IF \/ ~arraysEqual(opening.proofCurrent.root, proof.root)
                 \/ ~arraysEqual(opening.proofNext.root, proof.root)
           THEN "false"
         ELSE IF ~merkleVerify(opening.proofCurrent) THEN "false"
         ELSE IF ~merkleVerify(opening.proofNext) THEN "false"
         ELSE IF ~equals(authHash(opening.current), opening.next) THEN "false"
         ELSE verifyLoopNoFinalHash(proof, statement, steps, i + 1,
                         finalEdgeChecked \/ index = steps - 2)

\* MUTANT of verifyLoop: the transition constraint is not checked
RECURSIVE verifyLoopNoTransition(_, _, _, _, _)
verifyLoopNoTransition(proof, statement, steps, i, finalEdgeChecked) ==
  IF i >= Len(proof.indices)
    THEN (IF ~finalEdgeChecked THEN "false" ELSE "true")
    ELSE
      LET index == proof.indices[i + 1]
          opening == proof.openings[i + 1]
      IN IF opening = Undefined THEN "throw"
         ELSE IF opening.index # index THEN "false"
         ELSE IF index < 0 \/ index >= steps - 1 THEN "false"
         ELSE IF \/ ~arraysEqual(opening.proofCurrent.root, proof.root)
                 \/ ~arraysEqual(opening.proofNext.root, proof.root)
           THEN "false"
         ELSE IF ~merkleVerify(opening.proofCurrent) THEN "false"
         ELSE IF ~merkleVerify(opening.proofNext) THEN "false"
         ELSE IF index = steps - 2 /\ ~equals(opening.next, statement.finalHash)
           THEN "false"
         ELSE verifyLoopNoTransition(proof, statement, steps, i + 1,
                         finalEdgeChecked \/ index = steps - 2)

\* MUTANT of verifyLoop: the last transition's next is compared with the recomputed
\* Transition(current) instead of statement.finalHash
RECURSIVE verifyLoopFinalRecomputed(_, _, _, _, _)
verifyLoopFinalRecomputed(proof, statement, steps, i, finalEdgeChecked) ==
  IF i >= Len(proof.indices)
    THEN (IF ~finalEdgeChecked THEN "false" ELSE "true")
    ELSE
      LET index == proof.indices[i + 1]
          opening == proof.openings[i + 1]
      IN IF opening = Undefined THEN "throw"
         ELSE IF opening.index # index THEN "false"
         ELSE IF index < 0 \/ index >= steps - 1 THEN "false"
         ELSE IF \/ ~arraysEqual(opening.proofCurrent.root, proof.root)
                 \/ ~arraysEqual(opening.proofNext.root, proof.root)
           THEN "false"
         ELSE IF ~merkleVerify(opening.proofCurrent) THEN "false"
         ELSE IF ~merkleVerify(opening.proofNext) THEN "false"
         ELSE IF ~equals(authHash(opening.current), opening.next) THEN "false"
         ELSE IF index = steps - 2 /\ ~equals(opening.next, authHash(opening.current))
           THEN "false"
         ELSE verifyLoopFinalRecomputed(proof, statement, steps, i + 1,
                         finalEdgeChecked \/ index = steps - 2)

\* the for loop of verify over proof.indices; i is 0-based as in the source.
\* The outcome is "true", "false" (a return) or "throw" (an exception
\* raised inside the try block).
RECURSIVE verifyLoop(_, _, _, _, _)
verifyLoop(proof, statement, steps, i, finalEdgeChecked) ==
  IF i >= Len(proof.indices)
    THEN (IF ~finalEdgeChecked THEN "false" ELSE "true")
    ELSE
      LET index == proof.indices[i + 1]
          opening == proof.openings[i + 1]
      IN IF opening = Undefined THEN "throw"
         ELSE IF opening.index # index THEN "false"
         ELSE IF index < 0 \/ index >= steps - 1 THEN "false"
         ELSE IF \/ ~arraysEqual(opening.proofCurrent.root, proof.root)
                 \/ ~arraysEqual(opening.proofNext.root, proof.root)
           THEN "false"
         ELSE IF ~merkleVerify(opening.proofCurrent) THEN "false"
         ELSE IF ~merkleVerify(opening.proofNext) THEN "false"
         ELSE IF ~equals(authHash(opening.current), opening.next) THEN "false"
         ELSE IF index = steps - 2 /\ ~equals(opening.next, statement.finalHash)
           THEN "false"
         ELSE verifyLoop(proof, statement, steps, i + 1,
                         finalEdgeChecked \/ index = steps - 2)

\* the body of the try block of StarkVerifier.verify
verifyTry(statement, params, proof) ==
  LET steps == params.steps
      queries == params.queries
  IN IF steps < 2 \/ queries < 1 THEN "false"
     ELSE IF Len(proof.indices) # queries THEN "false"
     ELSE IF Len(proof.openings) # queries THEN "false"
     ELSE
       LET seed == computeChallengeSeed(proof.root, statement)
           expectedIndices == deriveQueryIndices(seed, params)
       IN IF expectedIndices.error # "" THEN "throw"
          ELSE IF ~arrayEqualNumbers(expectedIndices.value, proof.indices)
            THEN "false"
          ELSE verifyLoop(proof, statement, steps, 0, FALSE)

\* MUTANT of verify: the try block without its catch
verifyNoCatch(statement, params, proof) == verifyTry(statement, params, proof)

\* StarkVerifier(statement, params).verify(proof): try { ... } catch { return false }
verify(statement, params, proof) ==
  LET outcome == verifyTry(statement, params, proof)
  IN IF outcome = "throw" THEN "false" ELSE outcome

----------------------------------------------------------------------------
(* The protocol run: one prover call, an adversary on the wire, one        *)
(* verifier call.  A second kind of run calls deriveQueryIndices directly. *)

VARIABLES
  pc,          \* "start", "failed", "proved", "verified"; "seed", "derived";
               \* "lib", "called", "followed";
               \* "call", "drawing", "returned", "thrown"
  statement,   \* the prover's Statement
  witness,     \* the prover's Witness
  params,      \* the prover's AuthParams
  generated,   \* what generateAuthProof returned or threw
  wire,        \* the Proof handed to the verifier
  vstatement,  \* the verifier's Statement
  vparams,     \* the verifier's AuthParams
  tamper,      \* what was altered between prover and verifier, "" if nothing
  verdict,     \* what verify returned: "true" or "false" ("" before the call)
  seedIn,      \* the seed of a direct deriveQueryIndices call
  derived,     \* what that call returned or threw
  op,          \* the library function called directly, "" before the call
  args,        \* the arguments of that call
  out,         \* what that call returned or threw
  after,       \* what the call made on its result returned or threw
  counter,     \* deriveQueryIndices run step by step: its local counter
  indices      \* and its local indices

vars == <<pc, statement, witness, params, generated, wire, vstatement,
          vparams, tamper, verdict, seedIn, derived, op, args, out, after,
          counter, indices>>

\* the variables of the protocol run, and those of a direct library call
run == <<statement, witness, params, generated, wire, vstatement, vparams,
         tamper, verdict, seedIn, derived>>

lib == <<op, args, out, after>>

\* the locals of a deriveQueryIndices call that is run step by step
loop == <<counter, indices>>

Field == {createField(v) : v \in 0..(STARK_PRIME - 1)}

\* params as callers may pass them, the invalid ones included
StepsRange == 0..MaxSteps

QueriesRange == 0..MaxSteps

ParamsRange == [steps : StepsRange, queries : QueriesRange]

\* seeds of direct derivation calls: digests of one-byte strings
Seeds == {sha256(<<b>>) : b \in 0..(2 * MaxSteps)}

NoResult == Return(<<>>)

NoSeed == <<>>

\* Statement.steps as callers may set it beside params p: the same chain
\* length, and for single-query params also one step more
StatementSteps(p) ==
  {p.steps} \cup (IF p.queries = 1 THEN {p.steps + 1} ELSE {})

\* a protocol run starts from drawn prover inputs
InitRun ==
  /\ pc = "start"
  /\ witness \in [secret : Field]
  /\ params \in ParamsRange
  /\ statement \in [steps : StatementSteps(params), finalHash : Field]
  /\ seedIn = NoSeed

\* a direct derivation call starts from a drawn seed and drawn params
InitDerive ==
  /\ pc = "seed"
  /\ witness = [secret |-> createField(0)]
  /\ params \in ParamsRange
  /\ statement = [steps |-> params.steps, finalHash |-> createField(0)]
  /\ seedIn \in Seeds

Init ==
  /\ InitRun \/ InitDerive
  /\ generated = Return(NoProof)
  /\ wire = NoProof
  /\ vstatement = statement
  /\ vparams = params
  /\ tamper = ""
  /\ verdict = ""
  /\ derived = NoResult
  /\ op = ""
  /\ args = <<>>
  /\ out = NoResult
  /\ after = NoResult
  /\ counter = 0
  /\ indices = <<>>

\* StarkProver.generateProof(): the proof, untouched, is what the verifier
\* is about to see
Generate ==
  /\ pc = "start"
  /\ generated' = generateAuthProof(statement, witness, params)
  /\ pc' = IF generated'.error = "" THEN "proved" ELSE "failed"
  /\ wire' = generated'.value
  /\ UNCHANGED <<statement, witness, params, vstatement, vparams, tamper,
                 verdict, seedIn, derived>>
  /\ UNCHANGED lib
  /\ UNCHANGED loop

\* a direct call deriveQueryIndices(seedIn, params)
Derive ==
  /\ pc = "seed"
  /\ derived' = deriveQueryIndices(seedIn, params)
  /\ pc' = "derived"
  /\ UNCHANGED <<statement, witness, params, generated, wire, vstatement,
                 vparams, tamper, verdict, seedIn>>
  /\ UNCHANGED lib
  /\ UNCHANGED loop

Untouched == pc = "proved" /\ tamper = ""

\* the verifier is given Transition(finalHash) as the public commitment
TamperFinalHash ==
  /\ Untouched
  /\ vstatement' = [vstatement EXCEPT !.finalHash = authHash(@)]
  /\ tamper' = "finalHash"
  /\ UNCHANGED <<pc, statement, witness, params, generated, wire, vparams,
                 verdict, seedIn, derived>>
  /\ UNCHANGED lib
  /\ UNCHANGED loop

\* the verifier is constructed with other params than the prover used
TamperParams ==
  /\ Untouched
  /\ \E p \in ParamsRange \cup [steps : {MaxSteps + 1}, queries : QueriesRange] :
       /\ p # vparams
       /\ vparams' = p
  /\ tamper' = "params"
  /\ UNCHANGED <<pc, statement, witness, params, generated, wire, vstatement,
                 verdict, seedIn, derived>>
  /\ UNCHANGED lib
  /\ UNCHANGED loop

\* one entry of proof.indices is changed
TamperIndex ==
  /\ Untouched
  /\ \E k \in 1..Len(wire.indices), v \in -1..MaxSteps :
       /\ v # wire.indices[k]
       /\ wire' = [wire EXCEPT !.indices[k] = v]
  /\ tamper' = "index"
  /\ UNCHANGED <<pc, statement, witness, params, generated, vstatement,
                 vparams, verdict, seedIn, derived>>
  /\ UNCHANGED lib
  /\ UNCHANGED loop

\* roots an adversary may substitute: the commitment to another secret's
\* trace of the same length, a bare leaf, the empty array
OtherRoots ==
  {MerkleTree([k \in 1..params.steps |->
      fieldElementToBytes(buildAuthTrace([secret |-> s], params).value[k])]).root :
        s \in Field}
    \cup {fieldElementToBytes(statement.finalHash), <<>>}

\* proof.root is replaced, indices and openings unchanged
TamperRoot ==
  /\ Untouched
  /\ \E r \in OtherRoots :
       /\ r # wire.root
       /\ wire' = [wire EXCEPT !.root = r]
  /\ tamper' = "root"
  /\ UNCHANGED <<pc, statement, witness, params, generated, vstatement,
                 vparams, verdict, seedIn, derived>>
  /\ UNCHANGED lib
  /\ UNCHANGED loop

\* the field values of one opening are changed, its Merkle proofs unchanged:
\* current alone, next alone, or both to a pair (c, Transition(c))
TamperOpening ==
  /\ Untouched
  /\ \E k \in 1..Len(wire.openings), c \in Field :
       \/ /\ c # wire.openings[k].current
          /\ wire' = [wire EXCEPT !.openings[k].current = c]
          /\ tamper' = "current"
       \/ /\ c # wire.openings[k].next
          /\ wire' = [wire EXCEPT !.openings[k].next = c]
          /\ tamper' = "next"
       \/ /\ c # wire.openings[k].current
          /\ wire' = [wire EXCEPT !.openings[k].current = c,
                                  !.openings[k].next = authHash(c)]
          /\ tamper' = "pair"
  /\ UNCHANGED <<pc, statement, witness, params, generated, vstatement,
                 vparams, verdict, seedIn, derived>>
  /\ UNCHANGED lib
  /\ UNCHANGED loop

\* two entries are swapped, in proof.indices and in proof.openings alike:
\* every opening still sits beside its own index
TamperOrder ==
  /\ Untouched
  /\ \E j, k \in 1..Len(wire.indices) :
       /\ j < k
       /\ wire' = [wire EXCEPT !.indices[j] = wire.indices[k],
                               !.indices[k] = wire.indices[j],
                               !.openings[j] = wire.openings[k],
                               !.openings[k] = wire.openings[j]]
  /\ tamper' = "order"
  /\ UNCHANGED <<pc, statement, witness, params, generated, vstatement,
                 vparams, verdict, seedIn, derived>>
  /\ UNCHANGED lib
  /\ UNCHANGED loop

\* the proof arrives malformed: an array cut short, or an opening that is
\* not an object
TamperShape ==
  /\ Untouched
  /\ \/ /\ wire' = [wire EXCEPT !.openings = SubSeq(@, 1, Len(@) - 1)]
        /\ tamper' = "openings cut"
     \/ /\ wire' = [wire EXCEPT !.indices = SubSeq(@, 1, Len(@) - 1)]
        /\ tamper' = "indices cut"
     \/ /\ \E k \in 1..Len(wire.openings) :
             wire' = [wire EXCEPT !.openings[k] = Undefined]
        /\ tamper' = "opening undefined"
  /\ UNCHANGED <<pc, statement, witness, params, generated, vstatement,
                 vparams, verdict, seedIn, derived>>
  /\ UNCHANGED lib
  /\ UNCHANGED loop

\* new StarkVerifier(vstatement, vparams).verify(wire)
Verify ==
  /\ pc = "proved"
  /\ verdict' = verify(vstatement, vparams, wire)
  /\ pc' = "verified"
  /\ UNCHANGED <<statement, witness, params, generated, wire, vstatement,
                 vparams, tamper, seedIn, derived>>
  /\ UNCHANGED lib
  /\ UNCHANGED loop

Next ==
  \/ Generate
  \/ Derive
  \/ TamperFinalHash
  \/ TamperParams
  \/ TamperIndex
  \/ TamperRoot
  \/ TamperOpening
  \/ TamperOrder
  \/ TamperShape
  \/ Verify

Spec == Init /\ [][Next]_vars

----------------------------------------------------------------------------
(* Direct calls of the library's functions on drawn arguments: one call,   *)
(* then, where the library is meant to be used that way, one call on its   *)
(* result.                                                                 *)

\* moduli other than STARK_PRIME that elements are constructed with: a
\* second prime and a composite
OtherModuli == {7, 6}

Moduli == {STARK_PRIME} \cup OtherModuli

Elements == UNION {{FieldElement(v, m) : v \in 0..(m - 1)} : m \in Moduli}

RawRange == (-MaxRaw)..MaxRaw

Exponents == (-MaxExponent)..MaxExponent

\* leaves: an encoded field element and a one-byte string
LeafValues == {fieldElementToBytes(createField(1)), <<255>>}

LeafSequences == UNION {[1..n -> LeafValues] : n \in 0..MaxLeaves}

\* where a byte of a leaf is changed, and by how much (mod 256)
FlipPositions(leaf) == {1, (Len(leaf) + 1) \div 2, Len(leaf)}

FlipDeltas == {1, 128, 255}

LibInit ==
  /\ pc = "lib"
  /\ witness = [secret |-> createField(0)]
  /\ params = [steps |-> 2, queries |-> 1]
  /\ statement = [steps |-> 2, finalHash |-> createField(0)]
  /\ seedIn = NoSeed
  /\ generated = Return(NoProof)
  /\ wire = NoProof
  /\ vstatement = statement
  /\ vparams = params
  /\ tamper = ""
  /\ verdict = ""
  /\ derived = NoResult
  /\ op = ""
  /\ args = <<>>
  /\ out = NoResult
  /\ after = NoResult
  /\ counter = 0
  /\ indices = <<>>

\* the call name(a) returns or throws `result`
Call(name, a, result) ==
  /\ pc' = "called"
  /\ op' = name
  /\ args' = a
  /\ out' = result
  /\ UNCHANGED after
  /\ UNCHANGED run
  /\ UNCHANGED loop

\* new FieldElement(value, modulus)
CallNew ==
  /\ pc = "lib"
  /\ \E value \in RawRange, modulus \in Moduli :
       Call("new", <<value, modulus>>, Return(FieldElement(value, modulus)))

CallAdd ==
  /\ pc = "lib"
  /\ \E a, b \in Elements : Call("add", <<a, b>>, addCall(a, b))

CallSub ==
  /\ pc = "lib"
  /\ \E a, b \in Elements : Call("sub", <<a, b>>, subCall(a, b))

CallMul ==
  /\ pc = "lib"
  /\ \E a, b \in Elements : Call("mul", <<a, b>>, mulCall(a, b))

CallDiv ==
  /\ pc = "lib"
  /\ \E a, b \in Elements : Call("div", <<a, b>>, div(a, b))

CallEquals ==
  /\ pc = "lib"
  /\ \E a, b \in Elements : Call("equals", <<a, b>>, equalsCall(a, b))

CallPow ==
  /\ pc = "lib"
  /\ \E a \in Elements, exponent \in Exponents :
       Call("pow", <<a, exponent>>, powCall(a, exponent))

CallInverse ==
  /\ pc = "lib"
  /\ \E a \in Elements : Call("inverse", <<a>>, inverse(a))

CallNeg ==
  /\ pc = "lib"
  /\ \E a \in Elements : Call("neg", <<a>>, Return(neg(a)))

CallToBytes ==
  /\ pc = "lib"
  /\ \E a \in Elements :
       Call("fieldElementToBytes", <<a>>, Return(fieldElementToBytes(a)))

\* fieldElementFromBytes on the bytes fieldElementToBytes returned
CallFromBytes ==
  /\ pc = "called"
  /\ op = "fieldElementToBytes"
  /\ pc' = "followed"
  /\ after' = fieldElementFromBytes(out.value)
  /\ UNCHANGED <<op, args, out>>
  /\ UNCHANGED run
  /\ UNCHANGED loop

\* byte strings a peer may send as a field element: 32 bytes whose value
\* (the last two bytes, the others zero) may exceed the modulus, and a
\* string one byte short
RawEncodings ==
  {Zeros(FieldBytes - 2) \o <<hi, lo>> : hi \in 0..1, lo \in 0..MaxByte}
    \cup {Zeros(FieldBytes - 1)}

\* fieldElementFromBytes on bytes that no fieldElementToBytes produced
CallDecode ==
  /\ pc = "lib"
  /\ \E bytes \in RawEncodings :
       Call("fieldElementFromBytes", <<bytes>>, fieldElementFromBytes(bytes))

\* new MerkleTree(leaves).getProof(index), the empty sequence and the
\* indices just outside the leaves included
CallGetProof ==
  /\ pc = "lib"
  /\ \E leaves \in LeafSequences, index \in (-1)..MaxLeaves :
       /\ index <= Len(leaves)
       /\ Call("getProof", <<leaves, index>>, getProofCall(leaves, index))

\* one byte of the proof's leaf is changed, siblings and root are not
FlipLeaf ==
  /\ pc = "called"
  /\ op = "getProof"
  /\ out.error = ""
  /\ \E j \in FlipPositions(out.value.leaf), d \in FlipDeltas :
       /\ args' = args \o <<j, d>>
       /\ out' = Return([out.value EXCEPT !.leaf[j] = (@ + d) % 256])
  /\ op' = "flipped"
  /\ UNCHANGED <<pc, after>>
  /\ UNCHANGED run
  /\ UNCHANGED loop

\* new MerkleProof(leaf, proof, root) made from the proof returned by
\* getProof: the node above the leaf as its leaf, the siblings above that
\* node as its proof, the same root
ClimbLeaf ==
  /\ pc = "called"
  /\ op = "getProof"
  /\ out.error = ""
  /\ Len(out.value.proof) >= 1
  /\ out' = Return([leaf |-> replay(<<out.value.proof[1]>>, 1, out.value.leaf),
                    proof |-> Tail(out.value.proof),
                    root |-> out.value.root])
  /\ op' = "climbed"
  /\ UNCHANGED <<pc, args, after>>
  /\ UNCHANGED run
  /\ UNCHANGED loop

\* new MerkleTree(leaves).getRoot() beside the root of the tree whose
\* leaves are that tree's first layer of node hashes
CallGetRoot ==
  /\ pc = "lib"
  /\ \E leaves \in LeafSequences :
       /\ Len(leaves) >= 2
       /\ LET nodes == MerkleTree(leaves).layers[2]
          IN Call("getRoot", <<leaves, nodes>>,
                  Return(<<MerkleTree(leaves).root, MerkleTree(nodes).root>>))

\* MerkleProof.verify() on the proof at hand
CallVerify ==
  /\ pc = "called"
  /\ op \in {"getProof", "flipped", "climbed"}
  /\ out.error = ""
  /\ pc' = "followed"
  /\ after' = Return(merkleVerify(out.value))
  /\ UNCHANGED <<op, args, out>>
  /\ UNCHANGED run
  /\ UNCHANGED loop

CallBuildAuthTrace ==
  /\ pc = "lib"
  /\ \E secret \in Field, steps \in 0..MaxTraceSteps :
       LET w == [secret |-> secret]
           p == [steps |-> steps, queries |-> 1]
       IN Call("buildAuthTrace", <<w, p>>, buildAuthTrace(w, p))

LibNext ==
  \/ CallNew
  \/ CallAdd
  \/ CallSub
  \/ CallMul
  \/ CallDiv
  \/ CallEquals
  \/ CallPow
  \/ CallInverse
  \/ CallNeg
  \/ CallToBytes
  \/ CallFromBytes
  \/ CallDecode
  \/ CallGetProof
  \/ FlipLeaf
  \/ ClimbLeaf
  \/ CallGetRoot
  \/ CallVerify
  \/ CallBuildAuthTrace

LibSpec == LibInit /\ [][LibNext]_vars

----------------------------------------------------------------------------
(* deriveQueryIndices run one loop iteration at a time *)

LoopParamsRange == [steps : 0..MaxLoopSteps, queries : 0..MaxLoopSteps]

LoopSeeds == {sha256(<<b>>) : b \in 0..MaxSeedByte}

LoopInit ==
  /\ pc = "call"
  /\ witness = [secret |-> createField(0)]
  /\ params \in LoopParamsRange
  /\ statement = [steps |-> params.steps, finalHash |-> createField(0)]
  /\ seedIn \in LoopSeeds
  /\ generated = Return(NoProof)
  /\ wire = NoProof
  /\ vstatement = statement
  /\ vparams = params
  /\ tamper = ""
  /\ verdict = ""
  /\ derived = NoResult
  /\ op = ""
  /\ args = <<>>
  /\ out = NoResult
  /\ after = NoResult
  /\ counter = 0
  /\ indices = <<>>

\* what a step of the call leaves alone
loopFrame ==
  UNCHANGED <<statement, witness, params, generated, wire, vstatement,
              vparams, tamper, verdict, seedIn, op, args, out, after>>

\* the checks on params throw
EnterThrow ==
  /\ pc = "call"
  /\ (params.queries < 1 \/ params.steps < 2
        \/ params.queries > params.steps - 1)
  /\ derived' = deriveQueryIndices(seedIn, params)
  /\ pc' = "thrown"
  /\ UNCHANGED loop
  /\ loopFrame

\* the checks on params pass: indices = [forcedIndex], counter = 0
Enter ==
  /\ pc = "call"
  /\ ~(params.queries < 1 \/ params.steps < 2
         \/ params.queries > params.steps - 1)
  /\ indices' = <<params.steps - 2>>
  /\ counter' = 0
  /\ pc' = "drawing"
  /\ UNCHANGED derived
  /\ loopFrame

\* one iteration of while (indices.length < queries)
Draw ==
  /\ pc = "drawing"
  /\ Len(indices) < params.queries
  /\ counter < MaxDraws
  /\ \E idx \in {drawIndex(seedIn, params.steps, counter)} :
       indices' = pushIfNew(indices, idx)
  /\ counter' = counter + 1
  /\ UNCHANGED <<pc, derived>>
  /\ loopFrame

\* the loop condition fails: return indices
ReturnIndices ==
  /\ pc = "drawing"
  /\ ~(Len(indices) < params.queries)
  /\ derived' = Return(indices)
  /\ pc' = "returned"
  /\ UNCHANGED loop
  /\ loopFrame

LoopNext ==
  \/ EnterThrow
  \/ Enter
  \/ Draw
  \/ ReturnIndices

\* the call is synchronous code on one thread: the engine keeps running it
\* until it returns or throws
LoopSpec == LoopInit /\ [][LoopNext]_vars /\ WF_vars(LoopNext)

----------------------------------------------------------------------------
(* Properties *)

ValidParams(p) == p.steps >= 2 /\ p.queries >= 1 /\ p.queries <= p.steps - 1

\* the messages of the three params checks (the spec's InvalidParams)
InvalidParamsMessages ==
  {"queries must be >= 1", "steps must be >= 2", "queries must be <= steps - 1"}

\* the message of the witness check (the spec's WitnessMismatch)
WitnessMismatchMessage == "Witness does not match statement.finalHash"

ProtocolRun == pc \in {"start", "failed", "proved", "verified"}

Generated == pc \in {"failed", "proved", "verified"}

\* the last element of the trace rebuilt from the witness (steps >= 2)
TraceFinal == buildAuthTrace(witness, params).value[params.steps]

\* what the verifier re-derives from the proof it was given
ExpectedIndices ==
  deriveQueryIndices(computeChallengeSeed(wire.root, vstatement), vparams)

\* the positions of the openings that are objects
OpeningPositions == {k \in 1..Len(wire.openings) : wire.openings[k] # Undefined}

\* C1: completeness.  With valid params and statement.finalHash equal to the
\* last element of the trace, generateAuthProof returns a proof, and the
\* verifier built from the same statement and params accepts that proof.
C1_Completeness ==
  (ProtocolRun /\ ValidParams(params) /\ equals(statement.finalHash, TraceFinal))
    => /\ Generated => (pc # "failed" /\ generated.error = "")
       /\ (pc = "verified" /\ tamper = "") => verdict = "true"

C1_Witness ==
  /\ pc = "verified"
  /\ tamper = ""
  /\ params.queries >= 2
  /\ verdict = "true"

\* C2: verify returns a boolean and never lets an exception out: a proof of
\* the wrong shape, invalid verifier params, or an error raised inside the
\* try block all give false.
C2_VerifyTotal ==
  pc = "verified"
    => /\ verdict \in {"true", "false"}
       /\ ~ValidParams(vparams) => verdict = "false"
       /\ tamper \in {"openings cut", "indices cut", "opening undefined"}
            => verdict = "false"
       /\ verifyTry(vstatement, vparams, wire) = "throw" => verdict = "false"

C2_Witness ==
  /\ pc = "verified"
  /\ vparams.steps >= 2
  /\ vparams.queries > vparams.steps - 1
  /\ verifyTry(vstatement, vparams, wire) = "throw"
  /\ verdict = "false"

\* C3: tamper rejection.  A generated proof is rejected by a verifier whose
\* statement.finalHash is Transition(finalHash), params unchanged.
C3_TamperRejection ==
  (pc = "verified" /\ tamper = "finalHash") => verdict = "false"

\* the re-derived indices agree with the proof's, so the rejection is the
\* final-hash comparison's
C3_Witness ==
  /\ pc = "verified"
  /\ tamper = "finalHash"
  /\ equals(vstatement.finalHash, authHash(statement.finalHash))
  /\ ExpectedIndices.value = wire.indices
  /\ verdict = "false"

\* C4: an accepted proof's indices are, entry by entry and in order, the
\* indices re-derived from (proof.root, statement); changing one entry of
\* proof.indices, or the order of the entries, gives false.
C4_IndicesBound ==
  pc = "verified"
    => /\ verdict = "true"
            => (ExpectedIndices.error = "" /\ wire.indices = ExpectedIndices.value)
       /\ tamper \in {"index", "order"} => verdict = "false"

\* one entry was changed to another index of the range, so the proof's
\* indices are no longer the re-derived ones
C4_Witness ==
  /\ pc = "verified"
  /\ tamper = "index"
  /\ Len(wire.indices) >= 2
  /\ \A k \in 1..Len(wire.indices) : wire.indices[k] \in 0..(vparams.steps - 2)
  /\ ExpectedIndices.error = ""
  /\ wire.indices # ExpectedIndices.value
  /\ verdict = "false"

\* C5: root tamper.  Replacing proof.root by a different root, indices and
\* openings unchanged, gives false, also with queries = 1.
C5_RootTamper ==
  (pc = "verified" /\ tamper = "root") => verdict = "false"

\* queries = 1: the re-derived indices are those of the proof whatever the
\* root, and the replaced root is another trace's commitment
C5_Witness ==
  /\ pc = "verified"
  /\ tamper = "root"
  /\ params.queries = 1
  /\ Len(wire.root) = DigestBytes
  /\ wire.root # generated.value.root
  /\ wire.indices = ExpectedIndices.value
  /\ verdict = "false"

\* C6: an accepted proof has Transition(opening.current) = opening.next in
\* every opening; one violating opening rejects the proof.
C6_TransitionChecked ==
  pc = "verified"
    => /\ verdict = "true"
            => \A k \in 1..Len(wire.openings) :
                 /\ wire.openings[k] # Undefined
                 /\ authHash(wire.openings[k].current) = wire.openings[k].next
       /\ (\E k \in OpeningPositions :
             authHash(wire.openings[k].current) # wire.openings[k].next)
            => verdict = "false"

\* exactly one opening violates the constraint, and it is not the first
C6_Witness ==
  /\ pc = "verified"
  /\ tamper = "current"
  /\ Len(wire.openings) >= 2
  /\ authHash(wire.openings[1].current) = wire.openings[1].next
  /\ \E k \in 2..Len(wire.openings) :
       authHash(wire.openings[k].current) # wire.openings[k].next
  /\ verdict = "false"

\* C7: an accepted proof has a checked opening of index steps-2 whose next
\* is statement.finalHash.
C7_FinalEdgeBound ==
  (pc = "verified" /\ verdict = "true")
    => \E k \in 1..Len(wire.openings) :
         /\ wire.indices[k] = vparams.steps - 2
         /\ wire.openings[k].index = vparams.steps - 2
         /\ equals(wire.openings[k].next, vstatement.finalHash)

\* a proof whose last-transition opening satisfies the transition constraint
\* but does not end in statement.finalHash is rejected
C7_Witness ==
  /\ pc = "verified"
  /\ tamper = "pair"
  /\ \E k \in 1..Len(wire.openings) :
       /\ wire.openings[k].index = vparams.steps - 2
       /\ authHash(wire.openings[k].current) = wire.openings[k].next
       /\ ~equals(wire.openings[k].next, vstatement.finalHash)
  /\ \A k \in 1..Len(wire.openings) :
       authHash(wire.openings[k].current) = wire.openings[k].next
  /\ verdict = "false"

\* C8: with valid params deriveQueryIndices returns exactly `queries`
\* pairwise distinct integers in [0, steps-2], steps-2 first.
DerivedWellFormed(indexList, p) ==
  /\ Len(indexList) = p.queries
  /\ \A j, k \in 1..Len(indexList) : j # k => indexList[j] # indexList[k]
  /\ \A k \in 1..Len(indexList) : indexList[k] \in 0..(p.steps - 2)
  /\ indexList[1] = p.steps - 2

C8_DerivedIndices ==
  /\ (pc = "derived" /\ ValidParams(params))
       => (derived.error = "" /\ DerivedWellFormed(derived.value, params))
  /\ (pc = "proved" /\ tamper = "")
       => DerivedWellFormed(wire.indices, params)

\* every index of [0, steps-2] had to be drawn
C8_Witness ==
  /\ pc = "derived"
  /\ params.steps >= 4
  /\ params.queries = params.steps - 1
  /\ derived.error = ""
  /\ Len(derived.value) = params.queries

\* C9: deriveQueryIndices and generateAuthProof throw one of the params
\* errors, and return no indices and no proof, whenever queries < 1,
\* steps < 2 or queries > steps-1.
C9_InvalidParams ==
  ~ValidParams(params)
    => /\ pc = "derived"
            => (derived.error \in InvalidParamsMessages /\ derived.value = <<>>)
       /\ Generated
            => /\ pc = "failed"
               /\ generated.error \in InvalidParamsMessages
               /\ generated.value = NoProof
               /\ wire = NoProof

C9_Witness ==
  /\ pc = "failed"
  /\ params.steps >= 2
  /\ params.queries > params.steps - 1
  /\ equals(statement.finalHash, TraceFinal)
  /\ generated.error \in InvalidParamsMessages

\* C10 as stated: generateAuthProof fails with WitnessMismatch whenever the
\* last element of the rebuilt trace differs from statement.finalHash.
C10_Original ==
  (Generated /\ params.steps >= 2 /\ ~equals(statement.finalHash, TraceFinal))
    => generated.error = WitnessMismatchMessage

\* C10, amended: with valid params (the params checks come first),
\* generateAuthProof fails with WitnessMismatch and returns no proof whenever
\* the last element of the rebuilt trace differs from statement.finalHash;
\* it returns a proof only when they are equal.
C10_WitnessMismatch ==
  /\ (Generated /\ ValidParams(params) /\ ~equals(statement.finalHash, TraceFinal))
       => /\ pc = "failed"
          /\ generated.error = WitnessMismatchMessage
          /\ generated.value = NoProof
  /\ (Generated /\ generated.error = "")
       => (params.steps >= 2 /\ equals(statement.finalHash, TraceFinal))

C10_Witness ==
  /\ pc = "failed"
  /\ ValidParams(params)
  /\ ~equals(statement.finalHash, TraceFinal)
  /\ generated.error = WitnessMismatchMessage

\* the secret is among the values a proof discloses: the field elements of
\* its openings and the leaves of their Merkle proofs
SecretDisclosed(proof) ==
  \E k \in 1..Len(proof.openings) :
    LET opening == proof.openings[k]
        secretBytes == fieldElementToBytes(witness.secret)
    IN \/ opening.current.value = witness.secret.value
       \/ opening.next.value = witness.secret.value
       \/ opening.proofCurrent.leaf = secretBytes
       \/ opening.proofNext.leaf = secretBytes

----------------------------------------------------------------------------
(* Properties of the direct calls (LibSpec) *)

Canonical(fe) == fe.value \in 0..(fe.modulus - 1)

\* the calls that return a FieldElement
ElementOps == {"new", "add", "sub", "mul", "div", "pow", "inverse", "neg"}

\* C12: every FieldElement, constructed from any integer (negative or at
\* least the modulus) or returned by add, sub, mul, div, pow, inverse or
\* neg, has its value in [0, modulus).
C12_CanonicalValues ==
  (pc # "lib" /\ op \in ElementOps /\ out.error = "") => Canonical(out.value)

C12_Witness ==
  /\ pc = "called"
  /\ op = "new"
  /\ args = <<-MaxRaw, STARK_PRIME>>
  /\ out.error = ""
  /\ Canonical(out.value)

IsPrime(m) == m > 1 /\ \A d \in 2..(m - 1) : m % d # 0

\* the message of the zero test of inverse (the spec's DivisionByZero)
DivisionByZeroMessage == "Cannot invert zero"

\* C13: over a prime modulus, inverse of a # 0 returns x with a.mul(x) = 1;
\* inverse of 0, and so division by 0, fails with DivisionByZero.
C13_Inverse ==
  /\ (pc # "lib" /\ op = "inverse" /\ IsPrime(args[1].modulus)) =>
       IF args[1].value = 0
         THEN out.error = DivisionByZeroMessage
         ELSE /\ out.error = ""
              /\ mulCall(args[1], out.value)
                   = Return([value |-> 1, modulus |-> args[1].modulus])
  /\ (pc # "lib" /\ op = "div" /\ args[1].modulus = args[2].modulus
        /\ IsPrime(args[2].modulus) /\ args[2].value = 0) =>
       out.error = DivisionByZeroMessage

C13_Witness ==
  /\ pc = "called"
  /\ op = "inverse"
  /\ args = <<createField(2)>>
  /\ out = Return(createField(6))

\* the message of ensureSameField (the spec's FieldMismatch)
FieldMismatchMessage == "Field mismatch"

\* a binary operation was called on elements of different moduli
DifferentModuli ==
  /\ pc # "lib"
  /\ op \in {"add", "sub", "mul", "div", "equals"}
  /\ args[1].modulus # args[2].modulus

\* C14 as stated: on elements of different moduli, each of add, sub, mul,
\* div and equals fails with FieldMismatch.
C14_Original == DifferentModuli => out.error = FieldMismatchMessage

\* C14: on elements of different moduli, add, sub, mul and div fail with
\* FieldMismatch (div even when the divisor is zero); equals does not fail,
\* it returns false.
C14_FieldMismatch ==
  DifferentModuli =>
    IF op = "equals"
      THEN out.error = "" /\ out.value = FALSE
      ELSE out.error = FieldMismatchMessage

C14_Witness ==
  /\ pc = "called"
  /\ op = "div"
  /\ args[1].modulus # args[2].modulus
  /\ args[2].value = 0
  /\ out.error = FieldMismatchMessage

\* C15: for every element x with value in [0, P), fieldElementToBytes(x) is
\* exactly 32 bytes, big-endian (the value, below 256 here, is the last byte
\* and the bytes before it are zero); for x in F_P,
\* fieldElementFromBytes of these bytes equals x.
C15_RoundTrip ==
  (pc # "lib" /\ op = "fieldElementToBytes") =>
    /\ Len(out.value) = 32
    /\ \A i \in 1..32 : out.value[i] = (IF i = 32 THEN args[1].value ELSE 0)
    /\ (pc = "followed" /\ args[1].modulus = STARK_PRIME) =>
         (after.error = "" /\ equals(after.value, args[1]))

C15_Witness ==
  /\ pc = "followed"
  /\ op = "fieldElementToBytes"
  /\ args = <<createField(STARK_PRIME - 1)>>
  /\ after = Return(args[1])

\* C16: for every non-empty leaf sequence (a single leaf and odd lengths
\* included) and every valid index i, getProof(i) returns a proof and its
\* verify() returns true.
C16_ProofVerifies ==
  /\ (pc # "lib" /\ op = "getProof" /\ Len(args[1]) > 0
        /\ args[2] \in 0..(Len(args[1]) - 1)) => out.error = ""
  /\ (pc = "followed" /\ op = "getProof") => after.value = TRUE

C16_Witness ==
  /\ pc = "followed"
  /\ op = "getProof"
  /\ Len(args[1]) = 3
  /\ args[2] = 2
  /\ Len(out.value.proof) = 1
  /\ after.value = TRUE

\* C17: after one byte of the leaf of the proof returned by getProof(i) is
\* changed, siblings and root unchanged, verify() returns false.
C17_FlippedLeafRejected ==
  (pc = "followed" /\ op = "flipped") => after.value = FALSE

C17_Witness ==
  /\ pc = "followed"
  /\ op = "flipped"
  /\ Len(args[1]) = 3
  /\ Len(out.value.proof) = 2
  /\ after.value = FALSE

\* Transition(x) = x^3 + 7 mod P, computed directly
Transition(x) ==
  [value |-> (x.value * x.value * x.value + 7) % STARK_PRIME,
   modulus |-> STARK_PRIME]

\* Transition applied n times to x
RECURSIVE TransitionTimes(_, _)
TransitionTimes(n, x) ==
  IF n = 0 THEN x ELSE Transition(TransitionTimes(n - 1, x))

\* buildAuthTrace(args[1], args[2]) returned a trace
TraceBuilt == pc # "lib" /\ op = "buildAuthTrace" /\ out.error = ""

\* C19 as stated: for steps = n, the last element of the trace is
\* Transition applied n times to Transition(secret).
C19_Original ==
  TraceBuilt =>
    out.value[Len(out.value)]
      = TransitionTimes(args[2].steps, Transition(args[1].secret))

\* C19: for steps = n, the last element of the trace is Transition applied
\* n - 1 times to Transition(secret), that is n times to the secret.
C19_FinalValue ==
  TraceBuilt =>
    /\ out.value[Len(out.value)]
         = TransitionTimes(args[2].steps - 1, Transition(args[1].secret))
    /\ out.value[Len(out.value)] = TransitionTimes(args[2].steps, args[1].secret)

C19_Witness ==
  /\ TraceBuilt
  /\ args[2].steps = 16
  /\ out.value[16] = TransitionTimes(15, Transition(args[1].secret))
  /\ out.value[16] # TransitionTimes(16, Transition(args[1].secret))

\* C20: for every steps >= 2, buildAuthTrace returns exactly `steps` field
\* elements with trace[0] = Transition(secret) and
\* trace[i] = Transition(trace[i-1]) for 1 <= i < steps.
C20_TraceShape ==
  (pc # "lib" /\ op = "buildAuthTrace" /\ args[2].steps >= 2) =>
    /\ out.error = ""
    /\ Len(out.value) = args[2].steps
    /\ out.value[1] = Transition(args[1].secret)
    /\ \A i \in 2..args[2].steps : out.value[i] = Transition(out.value[i - 1])

C20_Witness ==
  /\ pc = "called"
  /\ op = "buildAuthTrace"
  /\ args[2].steps = 3
  /\ args[1].secret = createField(2)
  /\ out = Return(<<createField(4), createField(5), createField(0)>>)

\* the big-endian value of a byte string whose bytes before the last two
\* are zero
LastTwoBytesValue(bytes) == bytes[Len(bytes) - 1] * 256 + bytes[Len(bytes)]

\* C21: fieldElementFromBytes rejects a 32-byte input whose big-endian value
\* is P or more: it throws instead of returning the value reduced modulo P.
C21_RejectOnDecode ==
  (pc # "lib" /\ op = "fieldElementFromBytes" /\ Len(args[1]) = 32
     /\ LastTwoBytesValue(args[1]) >= STARK_PRIME) => out.error # ""

C23_LeafBinding ==
  (pc = "verified" /\ verdict = "true")
    => \A k \in 1..Len(wire.openings) :
         /\ wire.openings[k].proofCurrent.leaf
              = fieldElementToBytes(wire.openings[k].current)
         /\ wire.openings[k].proofNext.leaf
              = fieldElementToBytes(wire.openings[k].next)

\* C24: a MerkleProof that verifies and whose root is the root of a
\* MerkleTree has one of that tree's leaves as its leaf (a node hash or a
\* promoted node does not pass for a leaf), and two different leaf
\* sequences do not have the same root.
C24_MerkleBinding ==
  /\ (pc = "followed" /\ op \in {"getProof", "flipped", "climbed"}
        /\ after.value = TRUE
        /\ out.value.root = MerkleTree(args[1]).root)
       => \E k \in 1..Len(args[1]) : args[1][k] = out.value.leaf
  /\ (pc # "lib" /\ op = "getRoot" /\ args[1] # args[2])
       => out.value[1] # out.value[2]

\* C25: generateAuthProof returns a proof, and verify accepts a proof, only
\* when statement.steps equals params.steps, so that the accepted finalHash
\* is the value at position statement.steps - 1 of the chain.
C25_StepsAgree ==
  /\ (Generated /\ generated.error = "")
       => statement.steps = params.steps
  /\ (pc = "verified" /\ verdict = "true")
       => vstatement.steps = vparams.steps

====
